---- MODULE Spec2Model ----
(***************************************************************************)
(* Utel call-history integration: normalisation of vendor records, the     *)
(* fingerprint / upsert engine, the contact resolver, the polling sync and *)
(* the webhook ingestor (src/models/utel_call.py, src/controllers/utel.py).*)
(*                                                                         *)
(* Text values are sequences of one-character strings, so that digit       *)
(* stripping, trimming, splitting and case folding are computed.           *)
(* The helper functions of utel_call.py lines 319-424 are modelled as the  *)
(* methods their callers invoke (self._build_fp_key_from_vals, ...).       *)
(***************************************************************************)
EXTENDS Integers, Sequences, FiniteSets, TLC

VARIABLES
    calls,      \* utel.call table: sequence of records, id = position
    partners,   \* res.partner table: sequence of records, id = position
    cache,      \* _NUM_TO_PARTNER_CACHE: digits -> partner id
    lastOp,     \* what the most recent upsert or webhook request did, and how
                \* its input relates to the input of the step before it; for a
                \* request, its header, the number of records it carried and the
                \* records the handler read
    sync,       \* the running action_sync_all_pages invocation: where it is, the
                \* configuration it read, the pages it requested, its counters, the
                \* exception that ended it, and the page it last processed when a
                \* record of that page had no parseable timestamp
    resp,       \* the most recent webhook response
    cand,       \* record and configuration handed to _external_candidates, and its output
    auth,       \* configured secret, Authorization header and _auth_ok's verdict
    dur,        \* duration texts handed to _to_vals, and what it made of them
    fpair,      \* two normalised records and their fingerprints
    notif       \* the _broadcast_new_calls call of the running invocation: its
                \* arguments, the configuration it read and what it built and sent

vars == <<calls, partners, cache, lastOp, sync, resp, cand, auth, dur, fpair, notif>>

----------------------------------------------------------------------------
(* Bounds of the model *)

MaxCalls == 2
MaxPartners == 2
PerPage == 2
MaxBatch == 2
MaxUsers == 2

(* Program constants *)

TzOffsetMin == 300
InternalMaxLen == 5
LocalLen == 9
PrettyLen == 12
TailLen == 7
BearerLen == 7
CronPageLimit == 2
ManualPageLimit == 5

----------------------------------------------------------------------------
(* Text primitives *)

DigitChars == {"0", "1", "2", "3", "4", "5", "6", "7", "8", "9"}

DigitVal(ch) ==
    CASE ch = "0" -> 0 [] ch = "1" -> 1 [] ch = "2" -> 2 [] ch = "3" -> 3
      [] ch = "4" -> 4 [] ch = "5" -> 5 [] ch = "6" -> 6 [] ch = "7" -> 7
      [] ch = "8" -> 8 [] ch = "9" -> 9

isdigit(ch) == ch \in DigitChars

LowerChar(ch) ==
    CASE ch = "B" -> "b" [] ch = "E" -> "e" [] ch = "A" -> "a" [] ch = "R" -> "r"
      [] ch = "I" -> "i" [] ch = "N" -> "n" [] ch = "O" -> "o" [] ch = "U" -> "u"
      [] ch = "T" -> "t" [] ch = "K" -> "k" [] ch = "M" -> "m" [] ch = "S" -> "s"
      [] ch = "D" -> "d" [] ch = "G" -> "g" [] ch = "C" -> "c" [] ch = "W" -> "w"
      [] OTHER -> ch

lower(s) == [i \in 1..Len(s) |-> LowerChar(s[i])]

RECURSIVE lstrip(_)
lstrip(s) == IF s # <<>> /\ Head(s) = " " THEN lstrip(Tail(s)) ELSE s

RECURSIVE rstrip(_)
rstrip(s) ==
    IF s # <<>> /\ s[Len(s)] = " " THEN rstrip(SubSeq(s, 1, Len(s) - 1)) ELSE s

strip(s) == rstrip(lstrip(s))

\* s.rstrip(ch) for one character
RECURSIVE rstrip_char(_, _)
rstrip_char(s, ch) ==
    IF s # <<>> /\ s[Len(s)] = ch THEN rstrip_char(SubSeq(s, 1, Len(s) - 1), ch) ELSE s

startswith(s, p) == Len(s) >= Len(p) /\ SubSeq(s, 1, Len(p)) = p

contains(s, ch) == \E i \in 1..Len(s) : s[i] = ch

\* s.split(sep) for a one-character separator: always at least one part
RECURSIVE split(_, _)
split(s, sep) ==
    IF ~contains(s, sep) THEN <<s>>
    ELSE LET i == CHOOSE k \in 1..Len(s) :
                      s[k] = sep /\ \A j \in 1..(k - 1) : s[j] # sep
         IN  <<SubSeq(s, 1, i - 1)>> \o split(SubSeq(s, i + 1, Len(s)), sep)

RECURSIVE DecValue(_)
DecValue(s) ==
    IF s = <<>> THEN 0
    ELSE 10 * DecValue(SubSeq(s, 1, Len(s) - 1)) + DigitVal(s[Len(s)])

\* int(s) on text: surrounding blanks are accepted, anything else but decimal
\* digits raises ValueError (ok = FALSE)
int_of(s) ==
    LET t == strip(s)
    IN  IF t # <<>> /\ \A i \in 1..Len(t) : isdigit(t[i])
        THEN [ok |-> TRUE, v |-> DecValue(t)]
        ELSE [ok |-> FALSE, v |-> 0]

----------------------------------------------------------------------------
(* Helpers of utel_call.py *)

parse_hms(val) ==
    LET num(n) == IF n.ok THEN n.v ELSE 0
        two(m, sec) == IF m.ok /\ sec.ok THEN m.v * 60 + sec.v ELSE 0
        three(h, m, sec) ==
            IF h.ok /\ m.ok /\ sec.ok THEN h.v * 3600 + m.v * 60 + sec.v ELSE 0
        of_parts(parts) ==
            IF Len(parts) = 2 THEN two(int_of(parts[1]), int_of(parts[2]))
            ELSE IF Len(parts) = 3
            THEN three(int_of(parts[1]), int_of(parts[2]), int_of(parts[3]))
            ELSE num(int_of(val))
    IN  IF val = <<>> THEN 0 ELSE of_parts(split(val, ":"))

digits_only(num) == SelectSeq(num, isdigit)

CountryCode == <<"9", "9", "8">>

uz_digits(d) ==
    LET s == digits_only(d)
    IN  IF Len(s) = LocalLen THEN CountryCode \o s ELSE s

format_uz_pretty(digits) ==
    LET s == digits_only(digits)
    IN  IF Len(s) = PrettyLen /\ startswith(s, CountryCode)
        THEN LET n == SubSeq(s, 4, Len(s))
             IN  <<"+">> \o CountryCode \o <<" ">> \o SubSeq(n, 1, 2) \o <<" ">>
                 \o SubSeq(n, 3, 5) \o <<" ">> \o SubSeq(n, 6, 7) \o <<" ">>
                 \o SubSeq(n, 8, 9)
        ELSE IF s # <<>> THEN <<"+">> \o s ELSE <<>>

----------------------------------------------------------------------------
(* Timestamps.  A vendor timestamp text is [fmt, mi, s]: its syntax, and the *)
(* minute of the day and the second it spells.  fmt is "naive" for           *)
(* "YYYY-MM-DD HH:MM:SS", "iso_z" for ISO-8601 ending in Z, "bad" for text   *)
(* no parser accepts and "empty" for "".  A parsed value is [ok, mi, s] in   *)
(* UTC; ok = FALSE is the False the parser returns.                          *)

NoDate == [ok |-> FALSE, mi |-> 0, s |-> 0]

parse_utel_datetime(txt) ==
    IF txt.fmt = "empty" THEN NoDate
    ELSE IF txt.fmt = "iso_z" THEN [ok |-> TRUE, mi |-> txt.mi, s |-> txt.s]
    ELSE IF txt.fmt = "naive" THEN [ok |-> TRUE, mi |-> txt.mi - TzOffsetMin, s |-> txt.s]
    ELSE NoDate

\* strftime("%Y-%m-%d %H:%M:%S"), or "" for a missing date
date_text(dt) == IF dt.ok THEN <<dt.mi, dt.s>> ELSE <<>>

----------------------------------------------------------------------------
(* Normalisation of one vendor record.  A vendor record is a function from  *)
(* the keys it carries to their values.                                     *)

EmptyStamp == [fmt |-> "empty", mi |-> 0, s |-> 0]

\* a or b or c over text keys: the first present, non-empty value
RECURSIVE first_text(_, _)
first_text(rec, keys) ==
    IF keys = <<>> THEN <<>>
    ELSE IF Head(keys) \in DOMAIN rec /\ rec[Head(keys)] # <<>> THEN rec[Head(keys)]
    ELSE first_text(rec, Tail(keys))

RECURSIVE first_stamp(_, _)
first_stamp(rec, keys) ==
    IF keys = <<>> THEN EmptyStamp
    ELSE IF Head(keys) \in DOMAIN rec /\ rec[Head(keys)].fmt # "empty" THEN rec[Head(keys)]
    ELSE first_stamp(rec, Tail(keys))

\* int(txt or 0) unless the text holds ':'
duration_of(txt) ==
    IF contains(txt, ":") THEN [ok |-> TRUE, v |-> parse_hms(txt)]
    ELSE IF txt = <<>> THEN [ok |-> TRUE, v |-> 0]
    ELSE int_of(txt)

type_of(txt) ==
    LET t == lower(txt)
    IN  IF t \in {<<"i", "n", "c", "o", "m", "i", "n", "g">>, <<"i", "n">>} THEN "in"
        ELSE IF t \in {<<"o", "u", "t", "g", "o", "i", "n", "g">>, <<"o", "u", "t">>} THEN "out"
        ELSE IF t \in {<<"m", "i", "s", "s", "e", "d">>, <<"m", "i", "s", "s">>,
                       <<"n", "o", "a", "n", "s", "w", "e", "r">>,
                       <<"n", "o", "t", " ", "a", "n", "s", "w", "e", "r", "e", "d">>}
        THEN "missed"
        ELSE "other"

\* a flag that looks at the play URL alone
has_recording_of_play(play, download) == play # <<>>

\* bool(play or download)
has_recording_of(play, download) == play # <<>> \/ download # <<>>

\* _to_vals raises ValueError when a duration without ':' is no integer
to_vals_raises(rec) ==
    \/ ~duration_of(first_text(rec, <<"talk_time", "conversation", "duration">>)).ok
    \/ ~duration_of(first_text(rec, <<"ring_time", "ringing", "wait_time">>)).ok

to_vals(rec) ==
    LET dt   == parse_utel_datetime(
                    first_stamp(rec, <<"date_time", "datetime", "time", "started_at">>))
        talk == duration_of(first_text(rec, <<"talk_time", "conversation", "duration">>))
        ring == duration_of(first_text(rec, <<"ring_time", "ringing", "wait_time">>))
        play == first_text(rec, <<"recorded_file_url", "play_url", "listen_url",
                                  "record_url", "audio_url", "stream_url">>)
        down == first_text(rec, <<"download_url", "record_download_url", "file_url">>)
    IN  [utel_id |-> first_text(rec, <<"id">>),
         date_time |-> dt,
         type |-> type_of(first_text(rec, <<"type">>)),
         src |-> first_text(rec, <<"src">>),
         dst |-> first_text(rec, <<"dst">>),
         external_number |-> first_text(rec, <<"external_number">>),
         talk_time |-> talk.v,
         ring_time |-> ring.v,
         status |-> first_text(rec, <<"status">>),
         play_url |-> play,
         download_url |-> down,
         has_recording |-> has_recording_of(play, down)]

----------------------------------------------------------------------------
(* Fingerprint *)

\* type|date|src digits|dst digits|external digits; the fields hold no '|',
\* so the joined text is determined by the tuple of its parts
build_fp_key_from_vals(vals) ==
    <<vals.type, date_text(vals.date_time), digits_only(vals.src),
      digits_only(vals.dst), digits_only(vals.external_number)>>

\* a write that keeps the fingerprint the record had
recompute_fp_key_stale(r) == r.fp_key

\* from the stored record, whose *_norm fields are digits_only of the raw ones
recompute_fp_key(r) ==
    <<r.type, date_text(r.date_time), digits_only(r.src), digits_only(r.dst),
      digits_only(r.external_number)>>

----------------------------------------------------------------------------
(* Candidate numbers.  The DID and internal-extension parameters are given  *)
(* as the comma-separated tokens of the configuration text.                 *)

internal_extensions(extTokens) ==
    {strip(extTokens[i]) : i \in 1..Len(extTokens)} \ {<<>>}

is_internal_number(raw_num, extTokens) ==
    LET d == digits_only(raw_num)
    IN  \/ raw_num = <<>>
        \/ d = <<>>
        \/ d \in internal_extensions(extTokens)
        \/ Len(d) <= InternalMaxLen

company_dids(didTokens) ==
    {digits_only(didTokens[i]) : i \in 1..Len(didTokens)} \ {<<>>}

\* the nested consider(raw) applied to each of raws in turn; st = [out, seen]
RECURSIVE consider_all(_, _, _, _)
consider_all(raws, st, dids, extTokens) ==
    IF raws = <<>> THEN st
    ELSE LET d == digits_only(Head(raws))
             nxt == IF d = <<>> \/ d \in st.seen THEN st
                    ELSE IF d \in dids \/ is_internal_number(d, extTokens)
                    THEN [st EXCEPT !.seen = @ \cup {d}]
                    ELSE [out |-> Append(st.out, uz_digits(d)), seen |-> st.seen \cup {d}]
         IN  consider_all(Tail(raws), nxt, dids, extTokens)

RECURSIVE fallback_all(_, _, _)
fallback_all(raws, out, extTokens) ==
    IF raws = <<>> THEN out
    ELSE LET d == digits_only(Head(raws))
         IN  fallback_all(Tail(raws),
                          IF d # <<>> /\ ~is_internal_number(d, extTokens)
                          THEN Append(out, uz_digits(d)) ELSE out,
                          extTokens)

\* list(dict.fromkeys(out)): first occurrences, in order
RECURSIVE dedup(_)
dedup(out) ==
    IF out = <<>> THEN <<>>
    ELSE LET front == dedup(SubSeq(out, 1, Len(out) - 1))
             x == out[Len(out)]
         IN  IF \E i \in 1..Len(front) : front[i] = x THEN front ELSE Append(front, x)

external_candidates(r, didTokens, extTokens) ==
    LET payload_did == digits_only(r.external_number)
        dids == company_dids(didTokens)
                    \cup (IF payload_did # <<>> THEN {payload_did} ELSE {})
        order == IF r.type = "out" THEN <<r.dst, r.src>> ELSE <<r.src, r.dst>>
        main == consider_all(order, [out |-> <<>>, seen |-> {}], dids, extTokens).out
        out == IF main = <<>> THEN fallback_all(<<r.src, r.dst>>, <<>>, extTokens)
               ELSE main
    IN  dedup(out)

----------------------------------------------------------------------------
(* Configuration of the store-level model *)

\* utel_integration.did_numbers and utel_integration.internal_extensions,
\* split at the commas
ConfDids == << <<"9", "9", "8", "7", "1", "2", "0", "0", "0", "0", "0", "0">> >>
ConfInternalExt == << <<"1", "0", "1">> >>

Companies == {1, 2}

\* the order in which the host's search returns several matching contacts is
\* the host's: both id orders are outcomes
HostOrders == {"asc", "desc"}

\* the order decides a search only when two contacts carry the same number
host_orders(P) ==
    IF \E i, j \in 1..Len(P) :
            /\ i # j
            /\ ({SelectSeq(P[i].phone, isdigit), SelectSeq(P[i].mobile, isdigit)}
                    \cap {SelectSeq(P[j].phone, isdigit), SelectSeq(P[j].mobile, isdigit)})
                 \ {<<>>} # {}
    THEN HostOrders ELSE {"asc"}

----------------------------------------------------------------------------
(* Contact resolver.  P is the contact table, C the cache; 0 is "no record". *)

EmptyCache == [d \in {} |-> 0]

cache_get(C, d) == IF d \in DOMAIN C THEN C[d] ELSE 0

cache_put(C, d, pid) == [x \in DOMAIN C \cup {d} |-> IF x = d THEN pid ELSE C[x]]

\* the ids of S in the host's order
RECURSIVE ordered(_, _)
ordered(S, ho) ==
    IF S = {} THEN <<>>
    ELSE LET i == IF ho = "asc" THEN CHOOSE x \in S : \A y \in S : x <= y
                  ELSE CHOOSE x \in S : \A y \in S : x >= y
         IN  <<i>> \o ordered(S \ {i}, ho)

\* search(['|', ('phone', '=', compact), ('mobile', '=', compact)], limit=1)
search_exact(P, compact, ho) ==
    LET S == {i \in 1..Len(P) : P[i].phone = compact \/ P[i].mobile = compact}
    IN  IF S = {} THEN 0 ELSE ordered(S, ho)[1]

is_substring(t, s) ==
    \E i \in 0..(Len(s) - Len(t)) : SubSeq(s, i + 1, i + Len(t)) = t

ilike(s, t) == is_substring(lower(t), lower(s))

tail_of(d) == IF Len(d) > TailLen THEN SubSeq(d, Len(d) - TailLen + 1, Len(d)) ELSE d

\* the tail search, verified by digits: the matching ids in the host's order
search_tail(P, d_clean, ho) ==
    LET possible == {i \in 1..Len(P) :
                        ilike(P[i].phone, tail_of(d_clean))
                            \/ ilike(P[i].mobile, tail_of(d_clean))}
        exact == {i \in possible :
                        digits_only(P[i].phone) = d_clean
                            \/ digits_only(P[i].mobile) = d_clean}
    IN  ordered(exact, ho)

\* the canonical digits of the candidates, first occurrences in order
norms_of(candidates) ==
    dedup(SelectSeq([i \in 1..Len(candidates) |-> digits_only(uz_digits(candidates[i]))],
                    LAMBDA d : d # <<>>))

RECURSIVE find_in_norms(_, _, _, _, _)
find_in_norms(norms, company, P, C, ho) ==
    LET hit(d_clean, pid) == [pid |-> pid, cache |-> cache_put(C, d_clean, pid)]
        prefer(exact, same_co) == IF same_co # <<>> THEN same_co[1] ELSE exact[1]
        by_tail(d_clean, exact) ==
            IF exact # <<>>
            THEN hit(d_clean,
                     prefer(exact,
                            SelectSeq(exact, LAMBDA i : P[i].company_id = 0
                                                 \/ P[i].company_id = company)))
            ELSE find_in_norms(Tail(norms), company, P, C, ho)
        by_exact(d_clean, exact_eq) ==
            IF exact_eq # 0 THEN hit(d_clean, exact_eq)
            ELSE by_tail(d_clean, search_tail(P, d_clean, ho))
        by_cache(d_clean, pid) ==
            IF pid # 0 /\ pid \in 1..Len(P) THEN [pid |-> pid, cache |-> C]
            ELSE by_exact(d_clean, search_exact(P, <<"+">> \o d_clean, ho))
    IN  IF norms = <<>> THEN [pid |-> 0, cache |-> C]
        ELSE by_cache(Head(norms), cache_get(C, Head(norms)))

find_partner_by_numbers(r, company, P, C, ho) ==
    find_in_norms(norms_of(external_candidates(r, ConfDids, ConfInternalExt)),
                  company, P, C, ho)

\* a contact stored in the pretty format instead of the compact one
new_partner_pretty(compact) ==
    [name |-> compact, phone |-> format_uz_pretty(compact), mobile |-> <<>>,
     company_id |-> 0]

new_partner(compact) ==
    [name |-> compact, phone |-> compact, mobile |-> <<>>, company_id |-> 0]

\* the lookup steps of _get_or_create_partner_by_number: cache, exact, tail
lookup_partner(d_clean, P, C, ho) ==
    LET hit(pid) == [pid |-> pid, cache |-> cache_put(C, d_clean, pid)]
        by_tail(possible) ==
            IF possible # <<>> THEN hit(possible[1]) ELSE [pid |-> 0, cache |-> C]
        by_exact(existing) ==
            IF existing # 0 THEN hit(existing)
            ELSE by_tail(search_tail(P, d_clean, ho))
        by_cache(pid) ==
            IF pid # 0 /\ pid \in 1..Len(P) THEN [pid |-> pid, cache |-> C]
            ELSE by_exact(search_exact(P, <<"+">> \o d_clean, ho))
    IN  by_cache(cache_get(C, d_clean))

get_or_create_partner_by_number(raw_digits, P, C, ho) ==
    LET final(P2, again) == IF again # 0 THEN again ELSE Len(P2)
        cached(d_clean, P2, pid) ==
            [pid |-> pid, partners |-> P2, cache |-> cache_put(C, d_clean, pid)]
        recheck(d_clean, P2) ==
            cached(d_clean, P2, final(P2, search_exact(P2, <<"+">> \o d_clean, ho)))
        decide(d_clean, found) ==
            IF found.pid # 0
            THEN [pid |-> found.pid, partners |-> P, cache |-> found.cache]
            ELSE recheck(d_clean, Append(P, new_partner(<<"+">> \o d_clean)))
        of_digits(d_clean) ==
            IF d_clean = <<>> THEN [pid |-> 0, partners |-> P, cache |-> C]
            ELSE decide(d_clean, lookup_partner(d_clean, P, C, ho))
    IN  of_digits(digits_only(uz_digits(raw_digits)))

\* a resolver that treats every record as unlinked
already_linked_never(r) == FALSE

\* `if rec.partner_id: continue`
already_linked(r) == r.partner_id # 0

\* for one record r; returns the record, the contact table and the cache
assign_partner_from_numbers(r, company, P, C, ho) ==
    LET cands == external_candidates(r, ConfDids, ConfInternalExt)
        linked(made) ==
            [rec |-> [r EXCEPT !.partner_id = made.pid], partners |-> made.partners,
             cache |-> made.cache]
        by_found(found) ==
            IF found.pid # 0
            THEN [rec |-> [r EXCEPT !.partner_id = found.pid], partners |-> P,
                  cache |-> found.cache]
            ELSE IF cands = <<>> THEN [rec |-> r, partners |-> P, cache |-> found.cache]
            ELSE linked(get_or_create_partner_by_number(cands[1], P, found.cache, ho))
    IN  IF already_linked(r) THEN [rec |-> r, partners |-> P, cache |-> C]
        ELSE by_found(find_partner_by_numbers(r, company, P, C, ho))

----------------------------------------------------------------------------
(* The utel.call table.  T is the table; a step returns the new tables and   *)
(* err: "" when it went through, else the constraint the storage layer       *)
(* raised on, in which case nothing was written.                             *)

TriggerKeys == {"src", "dst", "external_number", "date_time", "type"}

\* the store without the unique(utel_id, company_id) constraint
utel_unique_off(T) == TRUE

\* unique(utel_id, company_id): a record without vendor id holds NULL there,
\* and NULLs do not collide
utel_unique(T) ==
    \A i, j \in 1..Len(T) :
        (i # j /\ T[i].utel_id # <<>> /\ T[i].company_id = T[j].company_id)
            => T[i].utel_id # T[j].utel_id

\* unique(company_id, fp_key)
utel_fp_unique(T) ==
    \A i, j \in 1..Len(T) :
        (i # j /\ T[i].company_id = T[j].company_id) => T[i].fp_key # T[j].fp_key

constraint_error(T) ==
    IF ~utel_unique(T) THEN "utel_unique"
    ELSE IF ~utel_fp_unique(T) THEN "utel_fp_unique"
    ELSE ""

\* _order = "date_time desc, id desc"; a missing date sorts first
sorts_before(T, i, j) ==
    LET a == T[i].date_time
        b == T[j].date_time
    IN  IF a.ok # b.ok THEN ~a.ok
        ELSE IF a.ok /\ a.mi # b.mi THEN a.mi > b.mi
        ELSE IF a.ok /\ a.s # b.s THEN a.s > b.s
        ELSE i > j

\* search(domain, limit=1) over the ids S that satisfy the domain
first_call(T, S) ==
    IF S = {} THEN 0
    ELSE CHOOSE i \in S : \A j \in S \ {i} : sorts_before(T, i, j)

search_by_utel_id(T, uid, company) ==
    first_call(T, {i \in 1..Len(T) : T[i].utel_id = uid /\ T[i].company_id = company})

\* a fingerprint lookup that never finds a record
search_by_fp_blind(T, fp, company) == 0

search_by_fp(T, fp, company) ==
    first_call(T, {i \in 1..Len(T) : T[i].fp_key = fp /\ T[i].company_id = company})

search_count_fp(T, fp, company) ==
    Cardinality({i \in 1..Len(T) : T[i].fp_key = fp /\ T[i].company_id = company})

\* UtelCall.create for one vals; vals may lack company_id
create(vals, company, T, P, C, ho) ==
    LET v == [k \in DOMAIN vals \cup {"company_id", "fp_key", "partner_id"} |->
                 IF k = "fp_key" THEN build_fp_key_from_vals(vals)
                 ELSE IF k \in DOMAIN vals THEN vals[k]
                 ELSE IF k = "company_id" THEN company
                 ELSE 0]
        err == constraint_error(Append(T, v))
        stored(a) ==
            [calls |-> Append(T, a.rec), partners |-> a.partners, cache |-> a.cache,
             id |-> Len(T) + 1, err |-> ""]
    IN  IF err # "" THEN [calls |-> T, partners |-> P, cache |-> C, id |-> 0, err |-> err]
        ELSE stored(assign_partner_from_numbers(v, company, P, C, ho))

\* UtelCall.write on the record id
write(id, vals, company, T, P, C, ho) ==
    LET r1 == [k \in DOMAIN T[id] |-> IF k \in DOMAIN vals THEN vals[k] ELSE T[id][k]]
        hit == (TriggerKeys \cap DOMAIN vals) # {}
        r2 == IF hit THEN [r1 EXCEPT !.fp_key = recompute_fp_key(r1)] ELSE r1
        err == constraint_error([T EXCEPT ![id] = r2])
        stored(a) ==
            [calls |-> [T EXCEPT ![id] = a.rec], partners |-> a.partners,
             cache |-> a.cache, id |-> id, err |-> ""]
    IN  IF err # "" THEN [calls |-> T, partners |-> P, cache |-> C, id |-> id, err |-> err]
        ELSE IF hit THEN stored(assign_partner_from_numbers(r2, company, P, C, ho))
        ELSE stored([rec |-> r2, partners |-> P, cache |-> C])

upsert_from_vals(vals0, company, T, P, C, ho) ==
    LET vals == [k \in DOMAIN vals0 \cup {"company_id", "fp_key"} |->
                    IF k = "fp_key" THEN build_fp_key_from_vals(vals0)
                    ELSE IF k \in DOMAIN vals0 THEN vals0[k]
                    ELSE company]
        uid == strip(vals.utel_id)
        by_id == IF uid # <<>> THEN search_by_utel_id(T, uid, company) ELSE 0
        by_fp == search_by_fp(T, vals.fp_key, company)
        rec == IF by_id # 0 THEN by_id ELSE by_fp
    IN  IF rec # 0
        THEN [branch |-> IF by_id # 0 THEN "by_id" ELSE "by_fp"]
                @@ write(rec, vals, company, T, P, C, ho)
        ELSE [branch |-> "create"] @@ create(vals, company, T, P, C, ho)

----------------------------------------------------------------------------
(* Inputs of the store-level model *)

NumPretty == <<"+", "9", "9", "8", " ", "9", "0", " ", "1", "2", "3", " ", "4", "5", " ", "6", "7">>
NumCompact == <<"9", "9", "8", "9", "0", "1", "2", "3", "4", "5", "6", "7">>
NumLocal == <<"9", "0", "1", "2", "3", "4", "5", "6", "7">>
NumOther == <<"9", "9", "8", "9", "3", "5", "5", "5", "1", "1", "2", "2">>
NumDid == <<"9", "9", "8", "7", "1", "2", "0", "0", "0", "0", "0", "0">>
NumExt == <<"1", "0", "1">>

Stamp(f, m, sec) == [fmt |-> f, mi |-> m, s |-> sec]

\* the vendor records the feed and the webhook draw from
VendorRecords == <<
    [id |-> <<"a">>, date_time |-> Stamp("naive", 600, 0),
     type |-> <<"i", "n", "c", "o", "m", "i", "n", "g">>,
     src |-> NumPretty, dst |-> NumDid, talk_time |-> <<"1", ":", "3", "0">>,
     recorded_file_url |-> <<"u">>],
    [id |-> <<"a">>, date_time |-> Stamp("naive", 600, 30), type |-> <<"i", "n">>,
     src |-> NumLocal, dst |-> NumDid, talk_time |-> <<"4", "5">>],
    [id |-> <<" ", "a">>, datetime |-> Stamp("iso_z", 300, 30), type |-> <<"I", "N">>,
     src |-> <<"+">> \o NumLocal, dst |-> NumDid, duration |-> <<"5">>,
     download_url |-> <<"d">>],
    [date_time |-> Stamp("naive", 600, 0), type |-> <<"i", "n">>,
     src |-> NumCompact, dst |-> NumDid, talk_time |-> <<"4", "5">>],
    [started_at |-> Stamp("iso_z", 300, 0), type |-> <<"I", "n">>,
     src |-> <<"+">> \o NumCompact, dst |-> NumDid,
     conversation |-> <<"0", "1", ":", "0", "2", ":", "0", "3">>,
     play_url |-> <<"u">>],
    [id |-> <<" ", "a">>, date_time |-> Stamp("bad", 0, 0), type |-> <<"O", "u", "t">>,
     src |-> NumExt, dst |-> NumOther],
    [id |-> <<"d">>, date_time |-> Stamp("naive", 600, 0), type |-> <<"i", "n">>,
     src |-> NumOther, dst |-> NumDid, talk_time |-> <<"a", "b", "c">>],
    [id |-> <<"e">>, date_time |-> Stamp("bad", 0, 0), type |-> <<"i", "n">>,
     src |-> NumOther, dst |-> NumDid, talk_time |-> <<"a", "b", "c">>]
>>

RecIds == 1..Len(VendorRecords)

\* _to_vals of each of them
PoolVals == [i \in RecIds |-> to_vals(VendorRecords[i])]
PoolRaises == [i \in RecIds |-> to_vals_raises(VendorRecords[i])]

\* whether the timestamp of each of them parses
PoolDated == [i \in RecIds |->
                 parse_utel_datetime(first_stamp(VendorRecords[i],
                     <<"date_time", "datetime", "time", "started_at">>)).ok]

\* utel_webhook runs as the public user (auth="none"): request.env.company is
\* the main company
WebhookCompany == 1

\* the contacts the host holds before the integration runs
InitialPartners == {
    <<>>,
    << [name |-> <<"B">>, phone |-> <<>>, mobile |-> <<"+">> \o NumOther, company_id |-> 1],
       [name |-> <<"C">>, phone |-> NumCompact, mobile |-> <<>>, company_id |-> 2] >>
}

\* utel_integration.webhook_token of the store-level model
ConfSecret == <<"t", "o", "k">>

\* the Authorization headers of the requests; the last is a request without one
Headers == <<
    <<"B", "e", "a", "r", "e", "r", " ", "t", "o", "k">>,
    <<"t", "o", "k", "2">>,
    <<>>
>>

----------------------------------------------------------------------------
(* Webhook authentication *)

cfg_token(configured) == strip(configured)

\* the Bearer prefix compared with its case
auth_ok_cased(header, configured) ==
    LET hdr == strip(header)
        tok == cfg_token(configured)
    IN  IF tok = <<>> THEN FALSE
        ELSE IF hdr = tok THEN TRUE
        ELSE IF startswith(hdr, <<"B", "e", "a", "r", "e", "r", " ">>)
                  /\ strip(SubSeq(hdr, BearerLen + 1, Len(hdr))) = tok THEN TRUE
        ELSE FALSE

\* a check that lets every request in
auth_ok_open(header, configured) == TRUE

auth_ok(header, configured) ==
    LET hdr == strip(header)
        tok == cfg_token(configured)
    IN  IF tok = <<>> THEN FALSE
        ELSE IF hdr = tok THEN TRUE
        ELSE IF startswith(lower(hdr), <<"b", "e", "a", "r", "e", "r", " ">>)
                  /\ strip(SubSeq(hdr, BearerLen + 1, Len(hdr))) = tok THEN TRUE
        ELSE FALSE

----------------------------------------------------------------------------
(* Notifications.  param is utel_integration.notify_enabled (<<>> when it is *)
(* not set), users the number of users _notify_target_users finds, each with *)
(* a partner; lookup_raises whether that lookup raises; send which bus       *)
(* method works: "many" (sendmany), "one" (sendone only) or "none".          *)

SendOutcomes == {"many", "one", "none"}

NotifyParams == {<<>>, <<"1">>, <<"0">>, <<" ", "0", " ">>, <<" ">>,
                 <<"f", "a", "l", "s", "e">>, <<"F", "a", "l", "s", "e">>,
                 <<"n", "o">>}

\* what a sync run meets when it notifies: delivery, a failing lookup of the
\* users, a bus that refuses every method, notifications switched off, no user
SyncNotifyInputs == {
    [param |-> <<>>, users |-> MaxUsers, lookup_raises |-> FALSE, send |-> "many"],
    [param |-> <<>>, users |-> MaxUsers, lookup_raises |-> TRUE, send |-> "many"],
    [param |-> <<>>, users |-> MaxUsers, lookup_raises |-> FALSE, send |-> "none"],
    [param |-> <<"0">>, users |-> MaxUsers, lookup_raises |-> FALSE, send |-> "many"],
    [param |-> <<>>, users |-> 0, lookup_raises |-> FALSE, send |-> "many"]}

\* notifications that no setting disables
notify_enabled_always(param) == TRUE

notify_enabled(param) ==
    strip(IF param = <<>> THEN <<"1">> ELSE param)
        \notin {<<"0">>, <<"f", "a", "l", "s", "e">>, <<"F", "a", "l", "s", "e">>, <<>>}

\* the messages that reach the bus: every method that raises is passed over
bus_send_compat(notifications, send) ==
    IF send \in {"many", "one"} THEN notifications ELSE 0

\* built: the notifications constructed; delivered: the ones that reached the
\* bus; raised: an exception left _broadcast_new_calls
broadcast_new_calls(created_count, param, users, lookup_raises, send) ==
    IF created_count <= 0 THEN [built |-> 0, delivered |-> 0, raised |-> FALSE]
    ELSE IF ~notify_enabled(param) THEN [built |-> 0, delivered |-> 0, raised |-> FALSE]
    ELSE IF lookup_raises THEN [built |-> 0, delivered |-> 0, raised |-> TRUE]
    ELSE IF users = 0 THEN [built |-> 0, delivered |-> 0, raised |-> FALSE]
    ELSE [built |-> users, delivered |-> bus_send_compat(users, send), raised |-> FALSE]

----------------------------------------------------------------------------
(* The polling sync and the webhook, one record at a time *)

\* one turn of the for-loop of action_sync_all_pages: vals is _to_vals of the
\* record, raises whether _to_vals raised; st carries the tables and the
\* counters, st.failed the escaping exception
process_record(vals, raises, st, company, ho) ==
    LET before == search_count_fp(st.calls, build_fp_key_from_vals(vals), company)
        counted(u) ==
            IF u.err # "" THEN [st EXCEPT !.failed = TRUE]
            ELSE LET after == search_count_fp(u.calls, u.calls[u.id].fp_key, company)
                 IN  [st EXCEPT !.calls = u.calls, !.partners = u.partners,
                                !.cache = u.cache,
                                !.updated = IF before > 0 /\ after > 0 THEN @ + 1 ELSE @,
                                !.created = IF before > 0 /\ after > 0 THEN @ ELSE @ + 1,
                                !.processed = @ + 1]
    IN  IF raises THEN [st EXCEPT !.failed = TRUE]
        ELSE IF ~vals.date_time.ok THEN st
        ELSE counted(upsert_from_vals(vals, company, st.calls, st.partners, st.cache, ho))

\* the for-loop over the records data of one page
RECURSIVE process_records(_, _, _, _)
process_records(data, st, company, ho) ==
    IF data = <<>> \/ st.failed THEN st
    ELSE process_records(Tail(data),
                         process_record(PoolVals[Head(data)], PoolRaises[Head(data)],
                                        st, company, ho),
                         company, ho)

\* the try-block of utel_webhook for one record; every exception is caught
\* and the record skipped
webhook_record(vals, raises, st, company, ho) ==
    LET existing == search_by_utel_id(st.calls, vals.utel_id, company)
        done(branch, u) ==
            IF u.err # "" THEN [st EXCEPT !.branch = branch, !.err = u.err]
            ELSE [st EXCEPT !.calls = u.calls, !.partners = u.partners, !.cache = u.cache,
                            !.updated = IF branch = "by_id" THEN @ + 1 ELSE @,
                            !.created = IF branch = "create" THEN @ + 1 ELSE @,
                            !.branch = branch, !.err = "", !.id = u.id]
    IN  IF raises THEN [st EXCEPT !.branch = "raised", !.err = "ValueError"]
        ELSE IF vals.utel_id = <<>> THEN [st EXCEPT !.branch = "skipped", !.err = ""]
        ELSE IF existing # 0
        THEN done("by_id", write(existing, vals, company, st.calls, st.partners, st.cache, ho))
        ELSE done("create", create(vals, company, st.calls, st.partners, st.cache, ho))

\* a loop that the first failing record ends
RECURSIVE webhook_records_abort(_, _, _, _)
webhook_records_abort(records, st, company, ho) ==
    IF records = <<>> \/ st.err # "" THEN st
    ELSE webhook_records_abort(Tail(records),
                               webhook_record(PoolVals[Head(records)],
                                              PoolRaises[Head(records)], st, company, ho),
                               company, ho)

RECURSIVE webhook_records(_, _, _, _)
webhook_records(records, st, company, ho) ==
    IF records = <<>> THEN st
    ELSE webhook_records(Tail(records),
                         webhook_record(PoolVals[Head(records)], PoolRaises[Head(records)],
                                        st, company, ho),
                         company, ho)

\* the records of a parsed body: a list, {"data": [...]} or a single object
body_records(body) ==
    IF body.shape \in {"list", "data"} THEN body.recs ELSE <<body.recs[1]>>

\* the batches of several records the requests carry: a record that fails in
\* _to_vals before or after one that is stored, a record the store refuses
\* after one it took, and two records with the same vendor id
Batches == {<<7, 1>>, <<1, 7>>, <<2, 3>>, <<3, 2>>, <<1, 2>>}

Bodies ==
    [shape : {"data"},
     recs : {b \in UNION {[1..n -> RecIds] : n \in 0..MaxBatch} :
                Len(b) <= 1 \/ b \in Batches}]
        \cup [shape : {"list", "single"}, recs : [1..1 -> RecIds]]

Pages == UNION {[1..n -> RecIds] : n \in 0..PerPage}

----------------------------------------------------------------------------
(* State machine of the store: direct upserts and webhook requests *)

NoOp == [op |-> "none", rec |-> 0, company |-> 0, branch |-> "", err |-> "", id |-> 0,
         rel |-> "none", h |-> 0, sent |-> 0, batch |-> <<>>]

\* how two normalised records relate
related(a, b) ==
    IF a.utel_id # <<>> /\ a.utel_id = b.utel_id THEN "same_id"
    ELSE IF a.utel_id = <<>> /\ b.utel_id = <<>>
              /\ a.type = b.type
              /\ a.date_time = b.date_time
              /\ digits_only(a.src) = digits_only(b.src)
              /\ digits_only(a.dst) = digits_only(b.dst)
              /\ digits_only(a.external_number) = digits_only(b.external_number)
    THEN "same_fp"
    ELSE "none"

\* how the input (op, i, company) relates to the input of the step in last:
\* "same" input, "same_id" (equal non-empty vendor id), "same_fp" (no vendor
\* id on either, equal fingerprint-contributing fields), or "none"
relation(last, op, i, company) ==
    IF last.op # op \/ last.company # company \/ last.rec = 0 \/ i = 0 THEN "none"
    ELSE IF last.rec = i THEN "same"
    ELSE related(PoolVals[i], PoolVals[last.rec])

NoConf == [base |-> <<>>, token |-> <<>>]

IdleSync == [pc |-> "idle", company |-> 0, limit |-> 0, fetched |-> <<>>, sizes |-> <<>>,
             dated |-> 0, processed |-> 0, created |-> 0, updated |-> 0,
             conf |-> NoConf, error |-> "", skipped_in |-> <<>>]

NoResp == [status |-> 0, ok |-> FALSE, created |-> 0, updated |-> 0]

NoCand == [type |-> "other", src |-> <<>>, dst |-> <<>>, external_number |-> <<>>,
           dids |-> <<>>, exts |-> <<>>, done |-> FALSE, out |-> <<>>]

NoAuth == [secret |-> <<>>, header |-> <<>>, done |-> FALSE, ok |-> FALSE]

NoDur == [talk |-> <<>>, ring |-> <<>>, done |-> FALSE, raised |-> FALSE,
          talk_time |-> 0, ring_time |-> 0]

NoFpair == [a |-> <<>>, b |-> <<>>, done |-> FALSE, ka |-> <<>>, kb |-> <<>>]

NoNotif == [called |-> FALSE, count |-> 0, param |-> <<>>, users |-> 0,
            lookup_raises |-> FALSE, send |-> "many", built |-> 0, delivered |-> 0,
            raised |-> FALSE]

Init ==
    /\ calls = <<>>
    /\ partners \in InitialPartners
    /\ cache = EmptyCache
    /\ lastOp = NoOp
    /\ sync = IdleSync
    /\ resp = NoResp
    /\ cand = NoCand
    /\ auth = NoAuth
    /\ dur = NoDur
    /\ fpair = NoFpair
    /\ notif = NoNotif

\* the direct upsert calls: every record for company 1, and for company 2
\* the records that share a vendor id and a fingerprint with company 1's
UpsertInputs == (RecIds \X {1}) \cup ({1, 4} \X {2})

Fits(T, P) == Len(T) <= MaxCalls /\ Len(P) <= MaxPartners

\* a direct call of _upsert_from_vals with the normalised fields of record i
Upsert(i, company, ho) ==
    /\ ~PoolRaises[i]
    /\ LET done(u) ==
               /\ Fits(u.calls, u.partners)
               /\ calls' = u.calls
               /\ partners' = u.partners
               /\ cache' = u.cache
               /\ lastOp' = [op |-> "upsert", rec |-> i, company |-> company,
                             branch |-> u.branch, err |-> u.err, id |-> u.id,
                             rel |-> relation(lastOp, "upsert", i, company),
                             h |-> 0, sent |-> 0, batch |-> <<>>]
       IN  done(upsert_from_vals(PoolVals[i], company, calls, partners, cache, ho))
    /\ resp' = NoResp
    /\ UNCHANGED <<sync, cand, auth, dur, fpair, notif>>

\* POST /utel/webhooks/call
Webhook(h, body, ho) ==
    /\ LET one == IF body.shape = "data" /\ Len(body.recs) = 1 THEN body.recs[1] ELSE 0
           answer(st) ==
               /\ Fits(st.calls, st.partners)
               /\ calls' = st.calls
               /\ partners' = st.partners
               /\ cache' = st.cache
               /\ resp' = [status |-> 200, ok |-> TRUE, created |-> st.created,
                           updated |-> st.updated]
               /\ lastOp' = [op |-> "webhook", rec |-> one, company |-> WebhookCompany,
                             branch |-> st.branch, err |-> st.err, id |-> st.id,
                             rel |-> relation(lastOp, "webhook", one, WebhookCompany),
                             h |-> h, sent |-> Len(body_records(body)),
                             batch |-> body_records(body)]
       IN  IF ~auth_ok(Headers[h], ConfSecret)
           THEN /\ resp' = [status |-> 401, ok |-> FALSE, created |-> 0, updated |-> 0]
                /\ lastOp' = [op |-> "webhook", rec |-> 0, company |-> WebhookCompany,
                              branch |-> "unauthorized", err |-> "", id |-> 0,
                              rel |-> "none", h |-> h,
                              sent |-> Len(body_records(body)), batch |-> <<>>]
                /\ UNCHANGED <<calls, partners, cache>>
           ELSE answer(webhook_records(body_records(body),
                           [calls |-> calls, partners |-> partners, cache |-> cache,
                            created |-> 0, updated |-> 0, branch |-> "", err |-> "",
                            id |-> 0],
                           WebhookCompany, ho))
    /\ UNCHANGED <<sync, cand, auth, dur, fpair, notif>>

\* a new server process starts with an empty _NUM_TO_PARTNER_CACHE
Restart ==
    /\ sync.pc = "idle"
    /\ cache # EmptyCache
    /\ cache' = EmptyCache
    /\ UNCHANGED <<calls, partners, lastOp, sync, resp, cand, auth, dur, fpair, notif>>

Next ==
    \/ \E in \in UpsertInputs, ho \in host_orders(partners) : Upsert(in[1], in[2], ho)
    \/ \E h \in 1..Len(Headers), b \in Bodies, ho \in host_orders(partners) :
            Webhook(h, b, ho)
    \/ Restart

Spec == Init /\ [][Next]_vars

----------------------------------------------------------------------------
(* State machine of the polling sync *)

\* utel_integration.base_url and utel_integration.token as the run finds them
Confs == {[base |-> <<"u">>, token |-> <<"t">>],
          [base |-> <<>>, token |-> <<"t">>],
          [base |-> <<"/">>, token |-> <<"t">>],
          [base |-> <<"u">>, token |-> <<>>],
          [base |-> <<"u">>, token |-> <<" ">>],
          [base |-> <<>>, token |-> <<>>]}

\* a check of the base URL alone
get_conn_base_only(base, token) == rstrip_char(base, "/") # <<>>

\* _get_conn: TRUE when it returns, FALSE when it raises UserError
get_conn(base, token) == rstrip_char(base, "/") # <<>> /\ strip(token) # <<>>

\* action_sync_all_pages up to the first fetch
SyncStart(company, limit, conf) ==
    /\ sync.pc = "idle"
    /\ sync' = IF get_conn(conf.base, conf.token)
               THEN [IdleSync EXCEPT !.pc = "fetching", !.company = company,
                                     !.limit = limit, !.conf = conf]
               ELSE [IdleSync EXCEPT !.pc = "failed", !.company = company,
                                     !.limit = limit, !.conf = conf, !.error = "config"]
    /\ UNCHANGED <<calls, partners, cache, lastOp, resp, cand, auth, dur, fpair, notif>>

\* a page loop that does not stop at a short page
more_pages_to_limit(data, per_page, page, limit) == page < limit

\* the loop goes on to another page
more_pages(data, per_page, page, limit) ==
    ~(Len(data) < per_page) /\ page < limit

\* one turn of the page loop: _fetch_page answers data, the records are processed
SyncPage(data, ho) ==
    /\ sync.pc = "fetching"
    /\ LET page == Len(sync.fetched) + 1
           ok == {i \in 1..Len(data) : PoolDated[data[i]]}
           turn(st) ==
               /\ Fits(st.calls, st.partners)
               /\ calls' = st.calls
               /\ partners' = st.partners
               /\ cache' = st.cache
               /\ sync' = [sync EXCEPT
                             !.fetched = Append(@, page),
                             !.sizes = Append(@, Len(data)),
                             !.skipped_in = IF Cardinality(ok) < Len(data) THEN data
                                            ELSE <<>>,
                             !.dated = @ + Cardinality(ok),
                             !.processed = st.processed,
                             !.created = st.created,
                             !.updated = st.updated,
                             !.error = IF st.failed THEN "record" ELSE "",
                             !.pc = IF st.failed THEN "failed"
                                    ELSE IF data = <<>> THEN "notifying"
                                    ELSE IF more_pages(data, PerPage, page, sync.limit)
                                    THEN "fetching" ELSE "notifying"]
       IN  turn(process_records(data,
                    [calls |-> calls, partners |-> partners, cache |-> cache,
                     processed |-> sync.processed, created |-> sync.created,
                     updated |-> sync.updated, failed |-> FALSE],
                    sync.company, ho))
    /\ UNCHANGED <<lastOp, resp, cand, auth, dur, fpair, notif>>

\* a failed request the run carries on from
SyncFetchSwallowed ==
    /\ sync.pc = "fetching"
    /\ sync' = [sync EXCEPT !.fetched = Append(@, Len(@) + 1), !.pc = "notifying",
                            !.error = "fetch"]
    /\ UNCHANGED <<calls, partners, cache, lastOp, resp, cand, auth, dur, fpair, notif>>

\* _fetch_page raises: a status other than 200 or a body that is no JSON
SyncFetchFails ==
    /\ sync.pc = "fetching"
    /\ sync' = [sync EXCEPT !.fetched = Append(@, Len(@) + 1), !.pc = "failed",
                            !.error = "fetch"]
    /\ UNCHANGED <<calls, partners, cache, lastOp, resp, cand, auth, dur, fpair, notif>>

\* a run that an exception of _broadcast_new_calls ends
after_notify_uncaught(b) == IF b.raised THEN "failed" ELSE "done"

\* the try-block around _broadcast_new_calls: whatever it raises is logged,
\* and the run goes on to return its result
after_notify(b) == "done"

\* _broadcast_new_calls with the created count, then the result is returned
SyncNotify(param, users, lookup_raises, send) ==
    /\ sync.pc = "notifying"
    /\ LET told(b) ==
               /\ notif' = [called |-> TRUE, count |-> sync.created, param |-> param,
                            users |-> users, lookup_raises |-> lookup_raises,
                            send |-> send, built |-> b.built,
                            delivered |-> b.delivered, raised |-> b.raised]
               /\ sync' = [sync EXCEPT !.pc = after_notify(b),
                                       !.error = IF after_notify(b) = "failed"
                                                 THEN "notify" ELSE @]
       IN  told(broadcast_new_calls(sync.created, param, users, lookup_raises, send))
    /\ UNCHANGED <<calls, partners, cache, lastOp, resp, cand, auth, dur, fpair>>

\* the invocation is over: its result or its exception went to the caller
SyncReturn ==
    /\ sync.pc \in {"done", "failed"}
    /\ sync' = IdleSync
    /\ notif' = NoNotif
    /\ UNCHANGED <<calls, partners, cache, lastOp, resp, cand, auth, dur, fpair>>

NextSync ==
    \/ \E l \in {CronPageLimit, ManualPageLimit}, conf \in Confs : SyncStart(1, l, conf)
    \/ \E d \in Pages, ho \in host_orders(partners) : SyncPage(d, ho)
    \/ SyncFetchFails
    \/ \E n \in SyncNotifyInputs : SyncNotify(n.param, n.users, n.lookup_raises, n.send)
    \/ SyncReturn
    \/ Restart

SpecSync == Init /\ [][NextSync]_vars

----------------------------------------------------------------------------
(* Direct upsert calls alone *)

NextUpsert ==
    \/ \E in \in UpsertInputs, ho \in host_orders(partners) : Upsert(in[1], in[2], ho)
    \/ Restart

SpecUpsert == Init /\ [][NextUpsert]_vars

----------------------------------------------------------------------------
(* _external_candidates as a function of the record and the configuration *)

CandNumbers == {<<>>, NumPretty, NumLocal, NumOther, NumDid, NumExt,
                <<"7", "1", "2", "0", "0", "0", "0", "0", "0">>,
                <<"1", "2", "3", "4", "5">>, <<"1", "2", "3", "4", "5", "6">>}

CandDids == { <<>>, << NumDid >>, << <<" ", "+">> \o NumDid, NumCompact >> }

CandExts == { <<>>, << <<" ", "1", "0", "1", " ">>, <<"1", "2", "3", "4", "5", "6">> >> }

InitCand ==
    /\ calls = <<>>
    /\ partners = <<>>
    /\ cache = EmptyCache
    /\ lastOp = NoOp
    /\ sync = IdleSync
    /\ resp = NoResp
    /\ auth = NoAuth
    /\ dur = NoDur
    /\ fpair = NoFpair
    /\ notif = NoNotif
    /\ cand \in [type : {"in", "out", "missed", "other"}, src : CandNumbers,
                 dst : CandNumbers, external_number : {<<>>, NumDid, NumLocal},
                 dids : CandDids, exts : CandExts, done : {FALSE}, out : {<<>>}]

Candidates ==
    /\ ~cand.done
    /\ cand' = [cand EXCEPT !.done = TRUE,
                            !.out = external_candidates(cand, cand.dids, cand.exts)]
    /\ UNCHANGED <<calls, partners, cache, lastOp, sync, resp, auth, dur, fpair, notif>>

SpecCand == InitCand /\ [][Candidates]_vars

----------------------------------------------------------------------------
(* _auth_ok as a function of the configured secret and the header *)

Tok == <<"t", "o", "k">>

AuthSecrets == {<<>>, <<" ">>, Tok, <<" ">> \o Tok \o <<" ">>,
                <<"B", "e", "a", "r", "e", "r", " ">> \o Tok}

AuthHeaders == {<<>>, <<" ">>, Tok, <<" ">> \o Tok \o <<" ">>, Tok \o <<"2">>,
                <<"T", "o", "k">>,
                <<"B", "e", "a", "r", "e", "r", " ">> \o Tok,
                <<"b", "e", "a", "r", "e", "r", " ">> \o Tok,
                <<"B", "E", "A", "R", "E", "R", " ">> \o Tok \o <<" ">>,
                <<"B", "e", "a", "r", "e", "r", " ", " ">> \o Tok,
                <<"B", "e", "a", "r", "e", "r">> \o Tok,
                <<"B", "e", "a", "r", "e", "r", " ">>,
                <<"B", "e", "a", "r", "e", "r", " ">> \o Tok \o <<"2">>,
                <<"B", "e", "a", "r", "e", "r", " ", "T", "O", "K">>,
                <<"B", "e", "a", "r", "e", "r", " ", "B", "e", "a", "r", "e", "r", " ">> \o Tok,
                <<"B", "a", "s", "i", "c", " ">> \o Tok}

InitAuth ==
    /\ calls = <<>>
    /\ partners = <<>>
    /\ cache = EmptyCache
    /\ lastOp = NoOp
    /\ sync = IdleSync
    /\ resp = NoResp
    /\ cand = NoCand
    /\ dur = NoDur
    /\ fpair = NoFpair
    /\ notif = NoNotif
    /\ auth \in [secret : AuthSecrets, header : AuthHeaders, done : {FALSE}, ok : {FALSE}]

AuthCheck ==
    /\ ~auth.done
    /\ auth' = [auth EXCEPT !.done = TRUE, !.ok = auth_ok(auth.header, auth.secret)]
    /\ UNCHANGED <<calls, partners, cache, lastOp, sync, resp, cand, dur, fpair, notif>>

SpecAuth == InitAuth /\ [][AuthCheck]_vars

----------------------------------------------------------------------------
(* _to_vals as a function of the duration texts of the vendor record *)

DurTexts == {<<>>, <<"0">>, <<"4", "5">>, <<" ", "7", " ">>, <<"a", "b", "c">>,
             <<"1", ":", "3", "0">>, <<"0", "1", ":", "0", "2", ":", "0", "3">>,
             <<"1", ":", "x">>, <<"1", ":", "2", ":", "3", ":", "4">>, <<":">>}

InitDur ==
    /\ calls = <<>>
    /\ partners = <<>>
    /\ cache = EmptyCache
    /\ lastOp = NoOp
    /\ sync = IdleSync
    /\ resp = NoResp
    /\ cand = NoCand
    /\ auth = NoAuth
    /\ fpair = NoFpair
    /\ notif = NoNotif
    /\ dur \in [talk : DurTexts, ring : DurTexts, done : {FALSE}, raised : {FALSE},
                 talk_time : {0}, ring_time : {0}]

\* _to_vals of a vendor record with these talk_time and ring_time
ToVals ==
    /\ ~dur.done
    /\ LET rec == [talk_time |-> dur.talk, ring_time |-> dur.ring]
           raises == to_vals_raises(rec)
       IN  dur' = [dur EXCEPT !.done = TRUE,
                              !.raised = raises,
                              !.talk_time = IF raises THEN 0 ELSE to_vals(rec).talk_time,
                              !.ring_time = IF raises THEN 0 ELSE to_vals(rec).ring_time]
    /\ UNCHANGED <<calls, partners, cache, lastOp, sync, resp, cand, auth, fpair, notif>>

SpecDur == InitDur /\ [][ToVals]_vars

----------------------------------------------------------------------------
(* _build_fp_key_from_vals as a function of two normalised records *)

FpVals == [type : {"in", "out"},
           date_time : {NoDate, [ok |-> TRUE, mi |-> 300, s |-> 0],
                        [ok |-> TRUE, mi |-> 300, s |-> 30],
                        [ok |-> TRUE, mi |-> 301, s |-> 0]},
           src : {NumPretty, NumCompact},
           dst : {NumDid},
           external_number : {<<>>}]

InitFp ==
    /\ calls = <<>>
    /\ partners = <<>>
    /\ cache = EmptyCache
    /\ lastOp = NoOp
    /\ sync = IdleSync
    /\ resp = NoResp
    /\ cand = NoCand
    /\ auth = NoAuth
    /\ dur = NoDur
    /\ notif = NoNotif
    /\ fpair \in [a : FpVals, b : FpVals, done : {FALSE}, ka : {<<>>}, kb : {<<>>}]

Fingerprints ==
    /\ ~fpair.done
    /\ fpair' = [fpair EXCEPT !.done = TRUE,
                              !.ka = build_fp_key_from_vals(fpair.a),
                              !.kb = build_fp_key_from_vals(fpair.b)]
    /\ UNCHANGED <<calls, partners, cache, lastOp, sync, resp, cand, auth, dur, notif>>

SpecFp == InitFp /\ [][Fingerprints]_vars

----------------------------------------------------------------------------
(* _broadcast_new_calls as a function of its arguments and what it meets *)

Counts == (0 - 1)..MaxCalls

InitNotify ==
    /\ calls = <<>>
    /\ partners = <<>>
    /\ cache = EmptyCache
    /\ lastOp = NoOp
    /\ sync = IdleSync
    /\ resp = NoResp
    /\ cand = NoCand
    /\ auth = NoAuth
    /\ dur = NoDur
    /\ fpair = NoFpair
    /\ notif \in [called : {FALSE}, count : Counts, param : NotifyParams,
                   users : 0..MaxUsers, lookup_raises : BOOLEAN, send : SendOutcomes,
                   built : {0}, delivered : {0}, raised : {FALSE}]

Broadcast ==
    /\ ~notif.called
    /\ LET told(b) ==
               notif' = [notif EXCEPT !.called = TRUE, !.built = b.built,
                                      !.delivered = b.delivered, !.raised = b.raised]
       IN  told(broadcast_new_calls(notif.count, notif.param, notif.users,
                                    notif.lookup_raises, notif.send))
    /\ UNCHANGED <<calls, partners, cache, lastOp, sync, resp, cand, auth, dur, fpair>>

SpecNotify == InitNotify /\ [][Broadcast]_vars

----------------------------------------------------------------------------
(* _find_partner_by_numbers over contact tables in which contacts of two    *)
(* companies carry one number                                                *)

\* res.partner tables of a host with two companies: the number of record 1
\* in the compact format on a contact of each company, the same without the
\* '+' (found by the tail search only), and the tables of the store model
FindPartners == InitialPartners \cup {
    << [name |-> <<"A">>, phone |-> <<"+">> \o NumCompact, mobile |-> <<>>, company_id |-> 2],
       [name |-> <<"B">>, phone |-> <<"+">> \o NumCompact, mobile |-> <<>>, company_id |-> 1] >>,
    << [name |-> <<"A">>, phone |-> NumCompact, mobile |-> <<>>, company_id |-> 2],
       [name |-> <<"B">>, phone |-> <<>>, mobile |-> NumCompact, company_id |-> 1] >>
}

InitFind ==
    /\ calls = <<>>
    /\ partners \in FindPartners
    /\ cache = EmptyCache
    /\ lastOp = NoOp
    /\ sync = IdleSync
    /\ resp = NoResp
    /\ cand = NoCand
    /\ auth = NoAuth
    /\ dur = NoDur
    /\ fpair = NoFpair
    /\ notif = NoNotif

\* _find_partner_by_numbers on the normalised record i under env.company
FindPartner(i, company, ho) ==
    /\ ~PoolRaises[i]
    /\ LET found(f) ==
               /\ cache' = f.cache
               /\ lastOp' = [NoOp EXCEPT !.op = "find", !.rec = i,
                                         !.company = company, !.id = f.pid]
       IN  found(find_partner_by_numbers(PoolVals[i], company, partners, cache, ho))
    /\ UNCHANGED <<calls, partners, sync, resp, cand, auth, dur, fpair, notif>>

NextFind ==
    \/ \E i \in RecIds, company \in Companies :
            \E ho \in host_orders(partners) : FindPartner(i, company, ho)
    \/ Restart

SpecFind == InitFind /\ [][NextFind]_vars

----------------------------------------------------------------------------
(* Claims about the upsert engine and the contact resolver *)

\* C1: in any sequence of upsert calls from an empty store, no two records of
\* a company share a fingerprint, and no upsert ever attempts a write that the
\* fingerprint uniqueness constraint has to refuse.
C1_FingerprintUniqueByLookupOrder ==
    /\ \A i, j \in 1..Len(calls) :
            (i # j /\ calls[i].company_id = calls[j].company_id)
                => calls[i].fp_key # calls[j].fp_key
    /\ lastOp.op = "upsert" => lastOp.err # "utel_fp_unique"

\* C2: no two stored records of the same company share a non-empty vendor id.
C2_VendorIdUnique ==
    \A i, j \in 1..Len(calls) :
        (i # j /\ calls[i].company_id = calls[j].company_id /\ calls[i].utel_id # <<>>)
            => calls[i].utel_id # calls[j].utel_id

\* two records of one company, both with a vendor id, after an upsert that
\* found its record by the vendor id of the call before it
C2_Witness ==
    /\ Len(calls) = 2
    /\ calls[1].company_id = calls[2].company_id
    /\ calls[1].utel_id # <<>> /\ calls[2].utel_id # <<>>
    /\ lastOp.op = "upsert" /\ lastOp.rel = "same_id"
    /\ lastOp.branch = "by_id" /\ lastOp.err = ""

\* C3: after two upserts in succession with the same non-empty vendor id and
\* company, exactly one record holds that (company, vendor id) and each of its
\* fields, the fingerprint included, is the second call's.
C3_SecondUpsertOverwrites ==
    (lastOp.op = "upsert" /\ lastOp.rel \in {"same", "same_id"}
        /\ PoolVals[lastOp.rec].utel_id # <<>>)
    => LET v == PoolVals[lastOp.rec]
           S == {i \in 1..Len(calls) : calls[i].company_id = lastOp.company
                                         /\ calls[i].utel_id = v.utel_id}
       IN  /\ Cardinality(S) = 1
           /\ \A i \in S :
                /\ \A k \in DOMAIN v : calls[i][k] = v[k]
                /\ calls[i].fp_key = build_fp_key_from_vals(v)

\* C4: after two upserts in succession without vendor id and with the same
\* fingerprint-contributing fields in the same company, the second call went
\* through, found its record by fingerprint, and exactly one record of the
\* company carries that fingerprint.
C4_FingerprintDedup ==
    (lastOp.op = "upsert" /\ lastOp.rel \in {"same", "same_fp"}
        /\ PoolVals[lastOp.rec].utel_id = <<>>)
    => /\ lastOp.err = ""
       /\ lastOp.branch = "by_fp"
       /\ Cardinality({i \in 1..Len(calls) :
                          /\ calls[i].company_id = lastOp.company
                          /\ calls[i].fp_key
                                = build_fp_key_from_vals(PoolVals[lastOp.rec])}) = 1

\* the second of two different no-id records with equal fingerprint fields
\* updated the record the first one left
C4_Witness ==
    /\ lastOp.op = "upsert" /\ lastOp.rel = "same_fp"
    /\ lastOp.branch = "by_fp" /\ lastOp.err = ""
    /\ lastOp.id \in 1..Len(calls)
    /\ calls[lastOp.id].talk_time = PoolVals[lastOp.rec].talk_time

\* C5: the resolver creates at most one contact per canonical number: no two
\* of the contacts it created (the ones named '+<digits>') carry the same digits.
C5_OneContactPerNumber ==
    \A i, j \in 1..Len(partners) :
        (i # j /\ startswith(partners[i].name, <<"+">>)
               /\ startswith(partners[j].name, <<"+">>))
            => digits_only(partners[i].name) # digits_only(partners[j].name)

\* two call records whose numbers are written differently are linked to the
\* one contact the resolver created
C5_Witness ==
    /\ Len(calls) = 2
    /\ digits_only(calls[1].src) # digits_only(calls[2].src)
    /\ calls[1].partner_id # 0
    /\ calls[1].partner_id = calls[2].partner_id
    /\ startswith(partners[calls[1].partner_id].name, <<"+">>)
    /\ Len(partners) = 1

----------------------------------------------------------------------------
(* Claims about the candidate numbers and the polling sync *)

\* C6: no configured DID and no number of 5 or fewer digits is ever among the
\* candidate numbers of a record, whatever its direction and numbers and
\* whatever the configuration.
C6_CandidateExclusion ==
    cand.done =>
        \A k \in 1..Len(cand.out) :
            /\ cand.out[k] \notin company_dids(cand.dids)
            /\ Len(cand.out[k]) > InternalMaxLen

----------------------------------------------------------------------------
(* Claims about the webhook *)

\* C8: an authenticated POST of {"data": [r]} with r well-formed and not yet
\* stored answers created 1, updated 0 and stores one record for r; the same
\* payload again answers created 0, updated 1 and one record for r remains.
C8_WebhookCreateThenUpdate ==
    [][ LET r == lastOp'.rec
            v == PoolVals[r]
            posted == /\ lastOp'.op = "webhook"
                      /\ r # 0
                      /\ <<lastOp', calls', resp'>> # <<lastOp, calls, resp>>
            of_r(T) == {i \in 1..Len(T) :
                            /\ T[i].company_id = WebhookCompany
                            /\ \/ T[i].fp_key = build_fp_key_from_vals(v)
                               \/ (v.utel_id # <<>> /\ T[i].utel_id = v.utel_id)}
            fresh == ~PoolRaises[r] /\ of_r(calls) = {}
            again == /\ lastOp.op = "webhook" /\ lastOp.rec = r
                     /\ resp = [status |-> 200, ok |-> TRUE, created |-> 1, updated |-> 0]
        IN  posted =>
                /\ fresh => /\ resp' = [status |-> 200, ok |-> TRUE, created |-> 1,
                                        updated |-> 0]
                            /\ Cardinality(of_r(calls')) = 1
                /\ again => /\ resp' = [status |-> 200, ok |-> TRUE, created |-> 0,
                                        updated |-> 1]
                            /\ Cardinality(of_r(calls')) = 1
      ]_vars

\* C9: an authenticated webhook request with one record leaves the call and
\* contact tables as normalising the record and upserting it would.
C9_WebhookSameAsUpsert ==
    [][ LET r == lastOp'.rec
            posted == /\ lastOp'.op = "webhook"
                      /\ r # 0
                      /\ <<lastOp', calls', resp'>> # <<lastOp, calls, resp>>
            same_as(u) == calls' = u.calls /\ partners' = u.partners
        IN  posted =>
                IF PoolRaises[r] THEN calls' = calls /\ partners' = partners
                ELSE \E ho \in host_orders(partners) :
                        same_as(upsert_from_vals(PoolVals[r], WebhookCompany, calls,
                                                 partners, cache, ho))
      ]_vars

\* C10: a request is accepted iff the configured secret is non-empty and the
\* trimmed header is the secret or 'Bearer ' (in any case) followed by the secret.
C10_AuthDecision ==
    auth.done =>
        LET hdr == strip(auth.header)
        IN  auth.ok <=>
                /\ auth.secret # <<>>
                /\ \/ hdr = auth.secret
                   \/ /\ Len(hdr) >= BearerLen
                      /\ lower(SubSeq(hdr, 1, BearerLen))
                            = <<"b", "e", "a", "r", "e", "r", " ">>
                      /\ SubSeq(hdr, BearerLen + 1, Len(hdr)) = auth.secret

\* C10, amended: a request is accepted iff the configured secret, trimmed, is
\* non-empty and the trimmed header is that secret, or 'Bearer ' (in any
\* case), any further blanks, and that secret.
C10_AuthDecisionTrimmed ==
    auth.done =>
        LET hdr == strip(auth.header)
            tok == strip(auth.secret)
        IN  auth.ok <=>
                /\ tok # <<>>
                /\ \/ hdr = tok
                   \/ /\ Len(hdr) >= BearerLen + Len(tok)
                      /\ lower(SubSeq(hdr, 1, BearerLen))
                            = <<"b", "e", "a", "r", "e", "r", " ">>
                      /\ SubSeq(hdr, Len(hdr) - Len(tok) + 1, Len(hdr)) = tok
                      /\ \A k \in (BearerLen + 1)..(Len(hdr) - Len(tok)) : hdr[k] = " "

\* a header accepted although the text after 'Bearer ' is not the configured
\* secret as it stands
C10_Witness ==
    /\ auth.done /\ auth.ok
    /\ strip(auth.header) # auth.secret
    /\ SubSeq(strip(auth.header), BearerLen + 1, Len(strip(auth.header))) # auth.secret

----------------------------------------------------------------------------
(* Claims about rejected requests and failing records *)

\* C11: a webhook request whose Authorization header is missing or is neither
\* the configured secret nor 'Bearer ' and the secret is answered 401 with
\* ok = false, and the call table, the contact table and the cache are after
\* it what they were before it, whatever records it carried.
C11_UnauthorizedRejected ==
    [][ LET posted == /\ lastOp'.op = "webhook"
                      /\ <<lastOp', calls', resp'>> # <<lastOp, calls, resp>>
            hdr == strip(Headers[lastOp'.h])
            presented ==
                \/ hdr = ConfSecret
                \/ /\ startswith(lower(hdr), <<"b", "e", "a", "r", "e", "r", " ">>)
                   /\ SubSeq(hdr, BearerLen + 1, Len(hdr)) = ConfSecret
        IN  (posted /\ ~presented) =>
                /\ resp'.status = 401
                /\ ~resp'.ok
                /\ calls' = calls
                /\ partners' = partners
                /\ cache' = cache
      ]_vars

\* a request without Authorization header that carried two records was
\* answered 401 while the store held a record
C11_Witness ==
    /\ lastOp.op = "webhook"
    /\ Headers[lastOp.h] = <<>>
    /\ lastOp.sent = 2
    /\ resp.status = 401 /\ ~resp.ok
    /\ Len(calls) >= 1

\* C12: an authenticated request is answered 200 with ok = true; when a
\* record of its batch fails in _to_vals or in the store, the tables and the
\* created and updated counts are after the request what the batch without
\* that record would have made them.
C12_BatchIsolation ==
    [][ LET B == lastOp'.batch
            posted == /\ lastOp'.op = "webhook"
                      /\ lastOp'.branch # "unauthorized"
                      /\ <<lastOp', calls', resp'>> # <<lastOp, calls, resp>>
            start == [calls |-> calls, partners |-> partners, cache |-> cache,
                      created |-> 0, updated |-> 0, branch |-> "", err |-> "", id |-> 0]
            same(st) == /\ calls' = st.calls
                        /\ partners' = st.partners
                        /\ cache' = st.cache
                        /\ resp'.created = st.created
                        /\ resp'.updated = st.updated
            run(recs, ho) == webhook_records(recs, start, WebhookCompany, ho)
            fails_first(ho) == run(<<B[1]>>, ho).err # ""
            fails_last(ho) == run(B, ho).err # ""
        IN  posted =>
                /\ resp'.status = 200
                /\ resp'.ok
                /\ Len(B) = 1 =>
                        \E ho \in host_orders(partners) :
                            /\ same(run(B, ho))
                            /\ fails_first(ho) => same(start)
                /\ Len(B) = 2 =>
                        \E ho \in host_orders(partners) :
                            /\ same(run(B, ho))
                            /\ fails_first(ho) => same(run(<<B[2]>>, ho))
                            /\ fails_last(ho) => same(run(<<B[1]>>, ho))
      ]_vars

\* a batch of two whose first record failed in _to_vals and whose second
\* record was created
C12_Witness ==
    /\ lastOp.op = "webhook"
    /\ Len(lastOp.batch) = 2
    /\ PoolRaises[lastOp.batch[1]]
    /\ ~PoolRaises[lastOp.batch[2]]
    /\ resp = [status |-> 200, ok |-> TRUE, created |-> 1, updated |-> 0]
    /\ Len(calls) = 1
    /\ calls[1].utel_id = PoolVals[lastOp.batch[2]].utel_id

\* C13: normalising a record never raises, whatever its duration texts, and
\* a duration text gives the seconds it spells: "1:30" 90, "01:02:03" 3723,
\* "45" 45, and the empty text and text that spells no number 0.
C13_DurationTotal ==
    dur.done =>
        /\ ~dur.raised
        /\ dur.talk = <<"1", ":", "3", "0">> => dur.talk_time = 90
        /\ dur.talk = <<"0", "1", ":", "0", "2", ":", "0", "3">> => dur.talk_time = 3723
        /\ dur.talk = <<"4", "5">> => dur.talk_time = 45
        /\ dur.talk \in {<<>>, <<"a", "b", "c">>, <<"1", ":", "x">>} => dur.talk_time = 0
        /\ dur.ring \in {<<>>, <<"a", "b", "c">>, <<"1", ":", "x">>} => dur.ring_time = 0

----------------------------------------------------------------------------
(* Claims about the failures of a sync run *)

\* C14: a run requests its pages in increasing order, each at most once; when
\* the request for a page fails the run is over with an error: no
\* notification was dispatched, and its only further step is to hand the
\* error to the caller, with no further request, no result and the tables
\* as they were.
C14_FetchFailureFatal ==
    [][ /\ \A i, j \in 1..Len(sync'.fetched) :
                i < j => sync'.fetched[i] < sync'.fetched[j]
        /\ sync'.error = "fetch" =>
                /\ sync'.pc = "failed"
                /\ ~notif'.called
        /\ sync.error = "fetch" =>
                /\ sync' = IdleSync
                /\ calls' = calls
                /\ partners' = partners
      ]_vars

\* the request for the second page failed after the first page had created
\* a record
C14_Witness ==
    /\ sync.pc = "failed"
    /\ sync.error = "fetch"
    /\ sync.fetched = <<1, 2>>
    /\ sync.sizes = <<PerPage>>
    /\ sync.created >= 1
    /\ ~notif.called

\* C15: a run that finds the base URL or the token missing or empty fails
\* before any request: it has requested no page and dispatched no
\* notification, and the call table, the contact table and the cache are
\* what they were before it.
C15_ConfigErrorBlocks ==
    [][ LET missing == sync'.conf.base = <<>> \/ sync'.conf.token = <<>>
        IN  /\ (sync'.pc # "idle" /\ missing) =>
                    /\ sync'.pc = "failed"
                    /\ sync'.fetched = <<>>
                    /\ ~notif'.called
            /\ (sync.pc = "idle" /\ sync'.pc # "idle" /\ missing) =>
                    /\ calls' = calls
                    /\ partners' = partners
                    /\ cache' = cache
                    /\ notif' = notif
      ]_vars

\* a run without token failed at once while the store held a record of an
\* earlier run
C15_Witness ==
    /\ sync.pc = "failed"
    /\ sync.error = "config"
    /\ sync.conf = [base |-> <<"u">>, token |-> <<>>]
    /\ sync.fetched = <<>>
    /\ Len(calls) >= 1

\* C16: whatever the notification does (delivers, finds the bus refusing, or
\* raises while it looks up its users), the run goes on to report its
\* result with the counters and the tables it had before notifying.
C16_NotifyFailureNonFatal ==
    [][ (sync.pc = "notifying" /\ sync'.pc # "notifying") =>
            /\ sync'.pc = "done"
            /\ sync'.processed = sync.processed
            /\ sync'.created = sync.created
            /\ sync'.updated = sync.updated
            /\ calls' = calls
            /\ partners' = partners
            /\ cache' = cache
      ]_vars

\* a run that created a record reports its result although the lookup of the
\* users to notify raised
C16_Witness ==
    /\ sync.pc = "done"
    /\ notif.called
    /\ notif.raised
    /\ notif.count >= 1
    /\ sync.created = notif.count

\* C17: a page with records whose timestamp does not parse leaves the tables,
\* the counters and the run as the same page without those records would.
C17_UndatedSkipped ==
    [][ LET data == sync'.skipped_in
            stepped == /\ sync.pc = "fetching"
                       /\ Len(sync'.sizes) = Len(sync.sizes) + 1
                       /\ data # <<>>
            dated == SelectSeq(data, LAMBDA i : PoolDated[i])
            start == [calls |-> calls, partners |-> partners, cache |-> cache,
                      processed |-> sync.processed, created |-> sync.created,
                      updated |-> sync.updated, failed |-> FALSE]
            same(st) == /\ calls' = st.calls
                        /\ partners' = st.partners
                        /\ sync'.processed = st.processed
                        /\ sync'.created = st.created
                        /\ sync'.updated = st.updated
                        /\ (sync'.pc = "failed") = st.failed
        IN  stepped =>
                \E ho \in host_orders(partners) :
                    /\ same(process_records(data, start, sync.company, ho))
                    /\ same(process_records(dated, start, sync.company, ho))
      ]_vars

----------------------------------------------------------------------------
(* Claims about the fingerprint, the recording flag and the notification *)

\* C18: two normalised records of the same direction, with timestamps in the
\* same minute and the same digits in source, destination and external
\* number, have equal fingerprints.
C18_FingerprintMinuteCollision ==
    fpair.done =>
        ((/\ fpair.a.type = fpair.b.type
          /\ fpair.a.date_time.ok = fpair.b.date_time.ok
          /\ fpair.a.date_time.mi = fpair.b.date_time.mi
          /\ digits_only(fpair.a.src) = digits_only(fpair.b.src)
          /\ digits_only(fpair.a.dst) = digits_only(fpair.b.dst)
          /\ digits_only(fpair.a.external_number) = digits_only(fpair.b.external_number))
            => fpair.ka = fpair.kb)

\* C19: every stored call record has has_recording set exactly when its
\* play_url or its download_url is not empty.
C19_RecordingFlag ==
    \A i \in 1..Len(calls) :
        calls[i].has_recording <=> (calls[i].play_url # <<>> \/ calls[i].download_url # <<>>)

\* a record with a download URL alone and the flag set, next to a record
\* without URL and without flag that a webhook request stored
C19_Witness ==
    /\ Len(calls) = 2
    /\ lastOp.op = "webhook" /\ lastOp.err = ""
    /\ \E i, j \in 1..Len(calls) :
            /\ calls[i].has_recording
            /\ calls[i].play_url = <<>> /\ calls[i].download_url # <<>>
            /\ ~calls[j].has_recording
            /\ calls[j].play_url = <<>> /\ calls[j].download_url = <<>>

\* C20: a broadcast with a count of zero or less, or with notifications
\* switched off in the settings, constructs no notification, delivers none
\* and raises nothing.
C20_BroadcastNoOp ==
    (notif.called /\ (notif.count <= 0 \/ notif.param = <<"0">>)) =>
        /\ notif.built = 0
        /\ notif.delivered = 0
        /\ ~notif.raised

\* a broadcast for one created record with notifications switched off, users
\* to notify and a working bus sent nothing
C20_Witness ==
    /\ notif.called
    /\ notif.count = 1
    /\ notif.param = <<"0">>
    /\ notif.users >= 1 /\ ~notif.lookup_raises /\ notif.send = "many"
    /\ notif.built = 0 /\ notif.delivered = 0

----------------------------------------------------------------------------
(* Claims about the counters, the stored fingerprint, the contact lookup and
   the page loop *)

\* C21: in every turn of the page loop that no exception ends, created grows
\* by the number of call records the turn added to the table, and created
\* plus updated equals processed.
C21_ClassificationExact ==
    [][ (/\ sync.pc = "fetching"
         /\ Len(sync'.sizes) = Len(sync.sizes) + 1
         /\ sync'.pc # "failed")
            => /\ sync'.created - sync.created = Len(calls') - Len(calls)
               /\ sync'.created + sync'.updated = sync'.processed
      ]_vars

\* C22: the fingerprint of every stored call record is the one its current
\* direction, timestamp and the digits of its source, destination and
\* external number give.
C22_FingerprintCurrent ==
    \A i \in 1..Len(calls) :
        calls[i].fp_key = <<calls[i].type, date_text(calls[i].date_time),
                            digits_only(calls[i].src), digits_only(calls[i].dst),
                            digits_only(calls[i].external_number)>>

\* a webhook request rewrote the record of the request before it (same vendor
\* id) with another direction, timestamp, source and destination
C22_Witness ==
    /\ lastOp.op = "webhook" /\ lastOp.branch = "by_id" /\ lastOp.err = ""
    /\ lastOp.rel = "same_id"
    /\ lastOp.rec = 6
    /\ calls[lastOp.id].type = "out"
    /\ ~calls[lastOp.id].date_time.ok
    /\ calls[lastOp.id].src = NumExt
    /\ calls[lastOp.id].dst = NumOther

\* C23: when a contact of the record's company and a contact of another
\* company both carry a canonical number of the record, and the lookup
\* returns a contact carrying that number, it returns one of the record's
\* company.
C23_SameTenantPreference ==
    LET carries(p, d) == digits_only(p.phone) = d \/ digits_only(p.mobile) = d
        norms == norms_of(external_candidates(PoolVals[lastOp.rec], ConfDids,
                                              ConfInternalExt))
        both(d) ==
            /\ \E j \in 1..Len(partners) :
                    partners[j].company_id = lastOp.company /\ carries(partners[j], d)
            /\ \E j \in 1..Len(partners) :
                    /\ partners[j].company_id \notin {0, lastOp.company}
                    /\ carries(partners[j], d)
    IN  (lastOp.op = "find" /\ lastOp.id # 0) =>
            \A k \in 1..Len(norms) :
                (both(norms[k]) /\ carries(partners[lastOp.id], norms[k]))
                    => partners[lastOp.id].company_id = lastOp.company

\* C24: the candidate numbers are canonical forms of the record's source and
\* destination without duplicate, and when both are listed the destination
\* comes first for an outbound record and the source first for any other.
C24_CandidateOrder ==
    LET order == IF cand.type = "out" THEN <<cand.dst, cand.src>>
                 ELSE <<cand.src, cand.dst>>
        canon(raw) == uz_digits(digits_only(raw))
    IN  cand.done =>
            /\ \A i, j \in 1..Len(cand.out) : i # j => cand.out[i] # cand.out[j]
            /\ \A k \in 1..Len(cand.out) :
                    cand.out[k] \in {canon(order[1]), canon(order[2])}
            /\ Len(cand.out) = 2 =>
                    (cand.out[1] = canon(order[1]) /\ cand.out[2] = canon(order[2]))

\* C25: no upsert and no webhook request changes the contact link of a record
\* that has one, and a request that rewrites one linked record changes
\* neither the contact table nor the cache.
C25_LinkedLeftAlone ==
    [][ (/\ lastOp'.op \in {"upsert", "webhook"}
         /\ <<lastOp', calls', resp'>> # <<lastOp, calls, resp>>)
            => /\ \A i \in 1..Len(calls) :
                    calls[i].partner_id # 0
                        => calls'[i].partner_id = calls[i].partner_id
               /\ (/\ lastOp'.sent <= 1
                   /\ lastOp'.branch \in {"by_id", "by_fp"}
                   /\ lastOp'.err = ""
                   /\ calls[lastOp'.id].partner_id # 0)
                    => (partners' = partners /\ cache' = cache)
      ]_vars

\* a webhook request gave the record of the request before it another
\* direction and other numbers, and the record is still linked to the contact
\* of its first source number
C25_Witness ==
    /\ lastOp.op = "webhook" /\ lastOp.branch = "by_id" /\ lastOp.err = ""
    /\ lastOp.rel = "same_id"
    /\ lastOp.rec = 6
    /\ calls[lastOp.id].src = NumExt
    /\ calls[lastOp.id].dst = NumOther
    /\ calls[lastOp.id].partner_id # 0
    /\ digits_only(partners[calls[lastOp.id].partner_id].phone) = NumCompact

\* C26: a run with page limit L (2 from the cron, 5 from the settings form)
\* has requested pages 1, 2, ... in order and at most L of them, none after a
\* page without records, and only a failed fetch or a missing configuration
\* ends it before the notifying step.
C26_BoundedAndCompletes ==
    /\ sync.pc # "idle" => sync.limit \in {CronPageLimit, ManualPageLimit}
    /\ Len(sync.fetched) <= sync.limit
    /\ \A k \in 1..Len(sync.fetched) : sync.fetched[k] = k
    /\ \A k \in 1..(Len(sync.sizes) - 1) : sync.sizes[k] # 0
    /\ sync.pc = "failed" => sync.error \in {"fetch", "config"}

====
